---- MODULE Spec2Model ----
(***************************************************************************)
(* OfflineAI: the streaming relay of Server/Server.js (POST /api/chat: an  *)
(* Express handler that forwards a chat request to Ollama and re-emits the *)
(* NDJSON stream as plain text) and the chat client that calls it.         *)
(*                                                                         *)
(* Text is a sequence of UTF-16 code units, a byte stream a sequence of    *)
(* numbers 0..255.  JSON values are tagged records.                        *)
(***************************************************************************)
EXTENDS Integers, Sequences, FiniteSets, TLC

-----------------------------------------------------------------------------
(* Literals: a TLA+ string as the text (code units) it denotes.            *)

Lower == "abcdefghijklmnopqrstuvwxyz"
Upper == "ABCDEFGHIJKLMNOPQRSTUVWXYZ"
Numerals == "0123456789"

IndexIn(c, table) == CHOOSE i \in 1..Len(table) : SubSeq(table, i, i) = c
OccursIn(c, table) == \E i \in 1..Len(table) : SubSeq(table, i, i) = c

Ord(c) ==
    IF OccursIn(c, Lower) THEN 96 + IndexIn(c, Lower)
    ELSE IF OccursIn(c, Upper) THEN 64 + IndexIn(c, Upper)
    ELSE IF OccursIn(c, Numerals) THEN 47 + IndexIn(c, Numerals)
    ELSE CASE c = "\n" -> 10 [] c = "\r" -> 13 [] c = "\t" -> 9 [] c = " " -> 32
           [] c = "\"" -> 34 [] c = "," -> 44 [] c = "-" -> 45 [] c = ":" -> 58
           [] c = "[" -> 91 [] c = "\\" -> 92 [] c = "]" -> 93 [] c = "{" -> 123
           [] c = "}" -> 125 [] c = "(" -> 40 [] c = ")" -> 41 [] c = "." -> 46
           [] c = "?" -> 63 [] c = "!" -> 33 [] c = "_" -> 95 [] c = "'" -> 39

Str(s) == [i \in 1..Len(s) |-> Ord(SubSeq(s, i, i))]

\* TLC evaluates an argument when it is first used; Now(x) uses it, so that
\* an accumulator is a value at every step of a recursion
Now(x) == x = x

Last(s) == s[Len(s)]
Front(s) == SubSeq(s, 1, Len(s) - 1)

RECURSIVE Flatten(_)
Flatten(ss) == IF ss = <<>> THEN <<>> ELSE Head(ss) \o Flatten(Tail(ss))

-----------------------------------------------------------------------------
(* new TextDecoder() / decoder.decode(value, {stream: true}): the UTF-8    *)
(* decoder, which keeps the bytes of an incomplete character between calls *)
(* and is never flushed by the handler.  ignoreBOM is false: a byte order  *)
(* mark at the start of the stream is dropped.                             *)

\* the decoder between two characters
Boundary(bomSeen) ==
    [cp |-> 0, seen |-> 0, needed |-> 0, lo |-> 128, hi |-> 191, bomSeen |-> bomSeen]

TextDecoder == Boundary(FALSE)

CodeUnits(cp) ==
    IF cp < 65536 THEN <<cp>>
    ELSE <<55296 + ((cp - 65536) \div 1024), 56320 + ((cp - 65536) % 1024)>>

\* a malformed sequence: U+FFFD, then what the offending byte decodes to
Malformed(again) == [st |-> again.st, out |-> <<65533>> \o again.out]

\* the UTF-8 state machine on one byte
RECURSIVE Utf8Byte(_, _)
Utf8Byte(st, b) ==
    IF st.needed = 0 THEN
        IF b <= 127 THEN [st |-> Boundary(st.bomSeen), out |-> <<b>>]
        ELSE IF b >= 194 /\ b <= 223 THEN
            [st |-> [Boundary(st.bomSeen) EXCEPT !.needed = 1, !.cp = b % 32],
             out |-> <<>>]
        ELSE IF b >= 224 /\ b <= 239 THEN
            [st |-> [cp |-> b % 16, seen |-> 0, needed |-> 2,
                     lo |-> IF b = 224 THEN 160 ELSE 128,
                     hi |-> IF b = 237 THEN 159 ELSE 191,
                     bomSeen |-> st.bomSeen],
             out |-> <<>>]
        ELSE IF b >= 240 /\ b <= 244 THEN
            [st |-> [cp |-> b % 8, seen |-> 0, needed |-> 3,
                     lo |-> IF b = 240 THEN 144 ELSE 128,
                     hi |-> IF b = 244 THEN 143 ELSE 191,
                     bomSeen |-> st.bomSeen],
             out |-> <<>>]
        ELSE [st |-> Boundary(st.bomSeen), out |-> <<65533>>]
    ELSE IF b < st.lo \/ b > st.hi THEN
        \* the byte is decoded again as a first byte
        Malformed(Utf8Byte(Boundary(st.bomSeen), b))
    ELSE
        LET cp == st.cp * 64 + (b % 64)
        IN  IF st.seen + 1 = st.needed
            THEN [st |-> Boundary(st.bomSeen), out |-> CodeUnits(cp)]
            ELSE [st |-> [cp |-> cp, seen |-> st.seen + 1, needed |-> st.needed,
                          lo |-> 128, hi |-> 191, bomSeen |-> st.bomSeen],
                  out |-> <<>>]

\* the first text the decoder produces loses a leading U+FEFF
Sniffed(d) ==
    IF d.st.bomSeen \/ d.out = <<>> THEN d
    ELSE [st |-> [d.st EXCEPT !.bomSeen = TRUE],
          out |-> IF Head(d.out) = 65279 THEN Tail(d.out) ELSE d.out]

DecodeByte(st, b) == Sniffed(Utf8Byte(st, b))

Emitted(out, d) == [st |-> d.st, out |-> out \o d.out]

RECURSIVE DecodeFrom(_, _, _)
DecodeFrom(bytes, i, acc) ==
    IF Now(acc) /\ i > Len(bytes) THEN acc
    ELSE DecodeFrom(bytes, i + 1, Emitted(acc.out, DecodeByte(acc.st, bytes[i])))

decode(st, value) == DecodeFrom(value, 1, [st |-> st, out |-> <<>>])

\* the end of the input: an unfinished character becomes U+FFFD
Flushed(d) == d.out \o (IF d.st.needed > 0 THEN <<65533>> ELSE <<>>)

\* new TextDecoder().decode(bytes): the whole of the bytes as text
Utf8Decode(bytes) == Flushed(decode(TextDecoder, bytes))

\* the body of a reply of the server's fetch as text: the runtime takes a
\* byte order mark off the bytes and decodes the rest with a TextDecoder,
\* which drops one more
utf8DecodeBytes(bytes) ==
    IF Len(bytes) >= 3 /\ SubSeq(bytes, 1, 3) = <<239, 187, 191>>
    THEN Utf8Decode(SubSeq(bytes, 4, Len(bytes)))
    ELSE Utf8Decode(bytes)

-----------------------------------------------------------------------------
(* String.prototype.split("\n") and String.prototype.trim().               *)

RECURSIVE SplitFrom(_, _, _, _)
SplitFrom(s, i, cur, acc) ==
    IF Now(cur) /\ Now(acc) /\ i > Len(s) THEN Append(acc, cur)
    ELSE IF s[i] = 10 THEN SplitFrom(s, i + 1, <<>>, Append(acc, cur))
    ELSE SplitFrom(s, i + 1, Append(cur, s[i]), acc)

split(s) == SplitFrom(s, 1, <<>>, <<>>)

WhiteSpace ==
    {9, 10, 11, 12, 13, 32, 160, 5760, 8232, 8233, 8239, 8287, 12288, 65279}
        \cup (8192..8202)

trim(s) ==
    LET keep == {i \in 1..Len(s) : s[i] \notin WhiteSpace}
    IN  IF keep = {} THEN <<>>
        ELSE SubSeq(s, CHOOSE i \in keep : \A j \in keep : i <= j,
                       CHOOSE i \in keep : \A j \in keep : i >= j)

-----------------------------------------------------------------------------
(* JavaScript values, as far as the handler looks at them.                 *)

Undefined == [t |-> "undefined"]
JNull == [t |-> "null"]
JBool(b) == [t |-> "boolean", b |-> b]
JStr(s) == [t |-> "string", s |-> s]
JObj(keys, vals) == [t |-> "object", k |-> keys, v |-> vals]
JArr(items) == [t |-> "array", a |-> items]

RECURSIVE Digits(_)
Digits(n) == IF n < 10 THEN <<48 + n>> ELSE Append(Digits(n \div 10), 48 + (n % 10))

Zeros(n) == [i \in 1..n |-> 48]

\* the zeros that d starts with, and those it ends with
LeadingZeros(d) ==
    CHOOSE n \in 0..Len(d) :
        (n = Len(d) \/ d[n + 1] # 48) /\ \A j \in 1..n : d[j] = 48

TrailingZeros(d) ==
    CHOOSE n \in 0..Len(d) :
        (n = Len(d) \/ d[Len(d) - n] # 48) /\ \A j \in 1..n : d[Len(d) + 1 - j] = 48

\* the value of the digits d[i..j], n before them
RECURSIVE DigitsValue(_, _, _, _)
DigitsValue(d, i, j, n) ==
    IF i > j THEN n ELSE DigitsValue(d, i + 1, j, n * 10 + (d[i] - 48))

\* a Number: the decimal digits d of its value, without the zeros before
\* and after them, and the place x of the point, the value being
\* 0.d1d2... * 10^x; zero has no digits, and inf says Infinity.  The digits
\* are those of Number::toString, the fewest that denote the double.
Finite(neg, d, x) == [t |-> "number", neg |-> neg, inf |-> FALSE, d |-> d, x |-> x]
Zero == Finite(FALSE, <<>>, 0)
Infinity(neg) == [t |-> "number", neg |-> neg, inf |-> TRUE, d |-> <<>>, x |-> 0]

-----------------------------------------------------------------------------
(* Whole numbers of any size, for the arithmetic on doubles: the limbs of  *)
(* a number in base 10000, the lowest first; zero has no limbs.  The       *)
(* operations halve their range, and so nest no deeper than its logarithm. *)

BigBase == 10000

BigTrim(a) ==
    SubSeq(a, 1, CHOOSE n \in 0..Len(a) :
                     (n = 0 \/ a[n] # 0) /\ \A j \in (n + 1)..Len(a) : a[j] = 0)

Limb(a, i) == IF i <= Len(a) THEN a[i] ELSE 0

BigCmpBelow(above, below) == IF above # 0 THEN above ELSE below

RECURSIVE BigCmpRange(_, _, _, _)
BigCmpRange(a, b, lo, hi) ==
    IF lo > hi THEN 0
    ELSE IF lo = hi
    THEN IF a[lo] < b[lo] THEN 0 - 1 ELSE IF a[lo] > b[lo] THEN 1 ELSE 0
    ELSE BigCmpBelow(BigCmpRange(a, b, (lo + hi) \div 2 + 1, hi),
                     BigCmpRange(a, b, lo, (lo + hi) \div 2))

\* -1, 0 or 1 as a is below, equal to or above b
BigCmp(a, b) ==
    IF Len(a) < Len(b) THEN 0 - 1
    ELSE IF Len(a) > Len(b) THEN 1
    ELSE BigCmpRange(a, b, 1, Len(a))

\* one limb of a + b, of a - b and of a * k, with what is carried into it:
\* the sum before the carry out is taken off
BigLimb(op, a, b, k, i, carry) ==
    CASE op = "add" -> Limb(a, i) + Limb(b, i) + carry
      [] op = "sub" -> Limb(a, i) - Limb(b, i) - carry + BigBase
      [] op = "mul" -> Limb(a, i) * k + carry

BigCarry(op, sum) == IF op = "sub" THEN 1 - sum \div BigBase ELSE sum \div BigBase

BigGlue(below, above) == [l |-> below.l \o above.l, c |-> above.c]

RECURSIVE BigRange(_, _, _, _, _, _, _)
BigAbove(op, a, b, k, lo, hi, below) ==
    BigGlue(below, BigRange(op, a, b, k, lo, hi, below.c))

BigOut(op, sum) == [l |-> <<sum % BigBase>>, c |-> BigCarry(op, sum)]

\* the limbs lo to hi of the result, and the carry out of them
BigRange(op, a, b, k, lo, hi, carry) ==
    IF lo > hi THEN [l |-> <<>>, c |-> carry]
    ELSE IF lo = hi THEN BigOut(op, BigLimb(op, a, b, k, lo, carry))
    ELSE BigAbove(op, a, b, k, (lo + hi) \div 2 + 1, hi,
                  BigRange(op, a, b, k, lo, (lo + hi) \div 2, carry))

BigCarried(r) == IF r.c = 0 THEN r.l ELSE Append(r.l, r.c)

BigAdd(a, b) ==
    BigCarried(BigRange("add", a, b, 0, 1, IF Len(a) > Len(b) THEN Len(a) ELSE Len(b), 0))

\* a - b, for a not below b
BigSub(a, b) == BigTrim(BigRange("sub", a, b, 0, 1, Len(a), 0).l)

\* a * k, for k from 0 to 10000
BigMul(a, k) ==
    IF k = 0 THEN <<>> ELSE BigCarried(BigRange("mul", a, <<>>, k, 1, Len(a), 0))

RECURSIVE SmallPower(_, _)
SmallPower(b, n) == IF n = 0 THEN 1 ELSE b * SmallPower(b, n - 1)

\* a * 2^n
RECURSIVE BigTimesPow2(_, _)
BigTimesPow2(a, n) ==
    IF Now(a) /\ n <= 13 THEN BigMul(a, SmallPower(2, n))
    ELSE BigTimesPow2(BigTimesPow2(a, n \div 2), n - n \div 2)

\* a * 10^n
BigTimesPow10(a, n) ==
    IF a = <<>> THEN a
    ELSE BigMul([i \in 1..(n \div 4) |-> 0] \o a, SmallPower(10, n % 4))

\* the number written with the decimal digits d
BigOfDigits(d) ==
    [i \in 1..((Len(d) + 3) \div 4) |->
        DigitsValue(d, IF Len(d) - 4 * i + 1 < 1 THEN 1 ELSE Len(d) - 4 * i + 1,
                    Len(d) - 4 * (i - 1), 0)]

BigOne == <<1>>
BigEven(m) == m = <<>> \/ m[1] % 2 = 0

-----------------------------------------------------------------------------
(* A double is m * 2^e with m below 2^53 and e from -1074 to 971.          *)

MinExponent == 0 - 1074
MaxExponent == 971
TwoTo52 == BigTimesPow2(BigOne, 52)
TwoTo53 == BigTimesPow2(BigOne, 53)

\* the next digit q of r / s, and what is left of r
RECURSIVE DigitOf(_, _, _)
DigitOf(r, s, q) ==
    IF BigCmp(r, s) >= 0 THEN DigitOf(BigSub(r, s), s, q + 1)
    ELSE [q |-> q, r |-> r]

\* Number::toString chooses the fewest digits that denote the double, and
\* of those the nearest to it.  r / s is what is left of the double after
\* the digits of acc; hi / s and lo / s are the widths above and below the
\* double within which a decimal denotes it, the ends too for an even m
LowEnough(r, lo, even) == BigCmp(r, lo) < (IF even THEN 1 ELSE 0)

HighEnough(r, hi, s, even) == BigCmp(BigAdd(r, hi), s) > (IF even THEN 0 - 1 ELSE 0)

\* the last digit: q or q + 1, the nearer one, the even one of two; half
\* is how twice r compares with s
RoundedDigit(q, low, high, half) ==
    IF low /\ ~high THEN q
    ELSE IF high /\ ~low THEN q + 1
    ELSE IF half < 0 THEN q
    ELSE IF half > 0 THEN q + 1
    ELSE IF q % 2 = 0 THEN q ELSE q + 1

RECURSIVE ShortestFrom(_, _, _, _, _, _)
ShortestEnd(qr, s, hi, lo, even, acc, low, high) ==
    IF low \/ high
    THEN Append(acc, 48 + RoundedDigit(qr.q, low, high, BigCmp(BigMul(qr.r, 2), s)))
    ELSE ShortestFrom(qr.r, s, hi, lo, even, Append(acc, 48 + qr.q))

ShortestStep(qr, s, hi, lo, even, acc) ==
    ShortestEnd(qr, s, hi, lo, even, acc, LowEnough(qr.r, lo, even),
                HighEnough(qr.r, hi, s, even))

ShortestFrom(r, s, hi, lo, even, acc) ==
    ShortestStep(DigitOf(BigMul(r, 10), s, 0), s, BigMul(hi, 10), BigMul(lo, 10),
                 even, acc)

\* the place of the point: the least k for which the double and the width
\* above it stay below 10^k, s carrying the power of ten
RECURSIVE ShortestAt(_, _, _, _, _, _, _)
ShortestAt(neg, r, s, hi, lo, even, k) ==
    IF HighEnough(r, hi, s, even)
    THEN ShortestAt(neg, r, BigMul(s, 10), hi, lo, even, k + 1)
    ELSE Finite(neg, ShortestFrom(r, s, hi, lo, even, <<>>), k)

\* the double m * 2^e, which is no less than 10^(k-1): below a power of
\* two the doubles lie half as far apart (u = 1)
BigTimes(a, twos, tens) == BigTimesPow10(BigTimesPow2(a, twos), tens)

ShortestScaled(neg, m, e, k, u) ==
    ShortestAt(neg,
        BigTimes(m, (IF e > 0 THEN e ELSE 0) + 1 + u, IF k < 0 THEN 0 - k ELSE 0),
        BigTimes(BigOne, (IF e < 0 THEN 0 - e ELSE 0) + 1 + u, IF k > 0 THEN k ELSE 0),
        BigTimes(BigOne, (IF e > 0 THEN e ELSE 0) + u, IF k < 0 THEN 0 - k ELSE 0),
        BigTimes(BigOne, IF e > 0 THEN e ELSE 0, IF k < 0 THEN 0 - k ELSE 0),
        BigEven(m), k)

Shortest(neg, m, e, k) ==
    ShortestScaled(neg, m, e, k, IF m = TwoTo52 /\ e > MinExponent THEN 1 ELSE 0)

\* the double of mantissa m and exponent e, and Infinity beyond the largest
Double(neg, m, e, x) ==
    IF m = <<>> THEN Zero
    ELSE IF e > MaxExponent THEN Infinity(neg)
    ELSE Shortest(neg, m, e, x - 1)

\* a mantissa of 2^53 is 2^52 with the next exponent
Carried(neg, m, e, x) ==
    IF m = TwoTo53 THEN Double(neg, TwoTo52, e + 1, x) ELSE Double(neg, m, e, x)

\* round to nearest, ties to even: rest / den is the part below the last
\* bit of m, in halves of that bit, and half how it compares with one half
RoundedUp(mr, half) ==
    IF half > 0 \/ (half = 0 /\ ~BigEven(mr.m)) THEN BigAdd(mr.m, BigOne) ELSE mr.m

Rounded(neg, mr, den, e, x) == Carried(neg, RoundedUp(mr, BigCmp(mr.rest, den)), e, x)

\* n bits of num / den, which lies from 1 up to 2, the highest first
RECURSIVE Mantissa(_, _, _, _)
Mantissa(num, den, n, m) ==
    IF Now(num) /\ Now(m) /\ n = 0 THEN [m |-> m, rest |-> num]
    ELSE IF BigCmp(num, den) >= 0
    THEN Mantissa(BigMul(BigSub(num, den), 2), den, n - 1, BigAdd(BigMul(m, 2), BigOne))
    ELSE Mantissa(BigMul(num, 2), den, n - 1, BigMul(m, 2))

\* num / den * 2^p with num / den from 1 up to 2: 53 bits, fewer below
\* 2^-1022, where the doubles are subnormal
Binary(neg, num, den, p, bits, x) ==
    IF p > MaxExponent + 52 THEN Infinity(neg)
    ELSE IF bits < 0 THEN Zero
    ELSE Rounded(neg, Mantissa(num, den, bits, <<>>), den, p - bits + 1, x)

\* num / den * 2^p, with num / den brought between 1 and 2
RECURSIVE Normalized(_, _, _, _, _)
Normalized(neg, num, den, p, x) ==
    IF BigCmp(num, BigMul(den, 2)) >= 0
    THEN Normalized(neg, num, BigMul(den, 2), p + 1, x)
    ELSE IF BigCmp(num, den) < 0
    THEN Normalized(neg, BigMul(num, 2), den, p - 1, x)
    ELSE Binary(neg, num, den, p, IF p >= 0 - 1022 THEN 53 ELSE p + 1075, x)

\* num / den, which is near 2^p
Scaled(neg, num, den, p, x) ==
    Normalized(neg, BigTimesPow2(num, IF p < 0 THEN 0 - p ELSE 0),
               BigTimesPow2(den, IF p > 0 THEN p ELSE 0), p, x)

\* the double nearest to 0.d * 10^x, which is near 2^(3.3219 (x - 1))
Nearest(neg, d, x) ==
    IF x > 310 THEN Infinity(neg)
    ELSE IF x < 0 - 325 THEN Zero
    ELSE Scaled(neg, BigTimesPow10(BigOfDigits(d), IF Len(d) <= x THEN x - Len(d) ELSE 0),
                BigTimesPow10(BigOne, IF Len(d) <= x THEN 0 ELSE Len(d) - x),
                ((x - 1) * 33219) \div 10000, x)

\* the digits past the 780th do not decide between two doubles by their
\* value, only by being there: one digit stands for them
SignificantDigits == 780

Significant(d) ==
    IF Len(d) > SignificantDigits THEN Append(SubSeq(d, 1, SignificantDigits), 49)
    ELSE d

\* a decimal of at most 15 digits from 1e-307 up to 1e308 is the shortest
\* that denotes its double
Canonical(neg, d, x) ==
    IF d = <<>> THEN Zero
    ELSE IF Len(d) <= 15 /\ x >= 0 - 306 /\ x <= 308 THEN Finite(neg, d, x)
    ELSE Nearest(neg, Significant(d), x)

\* the Number value of the decimal 0.d * 10^x
Number(neg, d, x) ==
    Canonical(neg, SubSeq(d, LeadingZeros(d) + 1, Len(d) - TrailingZeros(d)),
              x - LeadingZeros(d))

\* the Number of an integer
JNum(n) ==
    IF n < 0 THEN Number(TRUE, Digits(0 - n), Len(Digits(0 - n)))
    ELSE Number(FALSE, Digits(n), Len(Digits(n)))

\* obj.key (obj?.key on undefined and null): the last member of that name
Get(obj, key) ==
    IF obj.t # "object" THEN Undefined
    ELSE LET at == {i \in 1..Len(obj.k) : obj.k[i] = key}
         IN  IF at = {} THEN Undefined
             ELSE obj.v[CHOOSE i \in at : \A j \in at : i >= j]

Truthy(x) ==
    CASE x.t = "undefined" -> FALSE
      [] x.t = "null" -> FALSE
      [] x.t = "boolean" -> x.b
      [] x.t = "number" -> x.inf \/ x.d # <<>>
      [] x.t = "string" -> x.s # <<>>
      [] OTHER -> TRUE

\* Number::toString of a value with digits d and point at n
NumberToString(d, n) ==
    IF Len(d) <= n /\ n <= 21 THEN d \o Zeros(n - Len(d))
    ELSE IF 0 < n /\ n <= 21 THEN SubSeq(d, 1, n) \o <<46>> \o SubSeq(d, n + 1, Len(d))
    ELSE IF 0 - 6 < n /\ n <= 0 THEN <<48, 46>> \o Zeros(0 - n) \o d
    ELSE (IF Len(d) = 1 THEN d ELSE <<d[1], 46>> \o Tail(d))
             \o (IF n - 1 < 0 THEN <<101, 45>> \o Digits(1 - n)
                  ELSE <<101, 43>> \o Digits(n - 1))

K_toString == Str("toString")

\* String(x) throws TypeError: an object whose own toString is no function
\* has no primitive value, and an array joins the String of its elements
RECURSIVE StringThrows(_)
StringThrows(x) ==
    CASE x.t = "object" -> Get(x, K_toString) # Undefined
      [] x.t = "array" -> \E i \in 1..Len(x.a) : StringThrows(x.a[i])
      [] OTHER -> FALSE

\* String(x), where it does not throw
RECURSIVE String(_)
RECURSIVE Join(_, _, _)

\* Array.prototype.join(","): null and undefined elements give no text
Join(items, i, acc) ==
    IF Now(acc) /\ i > Len(items) THEN acc
    ELSE Join(items, i + 1,
              acc \o (IF i > 1 THEN <<44>> ELSE <<>>)
                  \o (IF items[i].t \in {"null", "undefined"} THEN <<>>
                      ELSE String(items[i])))

String(x) ==
    CASE x.t = "string" -> x.s
      [] x.t = "number" ->
            IF x.inf THEN (IF x.neg THEN <<45>> ELSE <<>>) \o Str("Infinity")
            ELSE IF x.d = <<>> THEN <<48>>
            ELSE (IF x.neg THEN <<45>> ELSE <<>>) \o NumberToString(x.d, x.x)
      [] x.t = "boolean" -> IF x.b THEN Str("true") ELSE Str("false")
      [] x.t = "null" -> Str("null")
      [] x.t = "undefined" -> Str("undefined")
      [] x.t = "array" -> Join(x.a, 1, <<>>)
      [] OTHER -> Str("[object Object]")

-----------------------------------------------------------------------------
(* JSON.parse(text).                                                       *)

ParseFail == [ok |-> FALSE, val |-> Undefined, i |-> 0]
ParseOk(v, i) == [ok |-> TRUE, val |-> v, i |-> i]

RECURSIVE SkipWs(_, _)
SkipWs(s, i) ==
    IF i <= Len(s) /\ s[i] \in {9, 10, 13, 32} THEN SkipWs(s, i + 1) ELSE i

IsDigit(c) == c >= 48 /\ c <= 57

HexVal(c) ==
    IF IsDigit(c) THEN c - 48
    ELSE IF c >= 97 /\ c <= 102 THEN c - 87
    ELSE IF c >= 65 /\ c <= 70 THEN c - 55
    ELSE 0 - 1

Escape(c) ==
    CASE c = 34 -> 34 [] c = 92 -> 92 [] c = 47 -> 47 [] c = 98 -> 8
      [] c = 102 -> 12 [] c = 110 -> 10 [] c = 114 -> 13 [] c = 116 -> 9
      [] OTHER -> 0 - 1

RECURSIVE ParseChars(_, _, _)
ParseChars(s, j, acc) ==
    IF Now(acc) /\ j > Len(s) THEN ParseFail
    ELSE IF s[j] = 34 THEN ParseOk(JStr(acc), j + 1)
    ELSE IF s[j] < 32 THEN ParseFail
    ELSE IF s[j] # 92 THEN ParseChars(s, j + 1, Append(acc, s[j]))
    ELSE IF j + 1 > Len(s) THEN ParseFail
    ELSE IF s[j + 1] = 117 THEN
        IF j + 5 > Len(s) \/ \E d \in 2..5 : HexVal(s[j + d]) < 0 THEN ParseFail
        ELSE ParseChars(s, j + 6,
                 Append(acc, HexVal(s[j + 2]) * 4096 + HexVal(s[j + 3]) * 256
                             + HexVal(s[j + 4]) * 16 + HexVal(s[j + 5])))
    ELSE IF Escape(s[j + 1]) < 0 THEN ParseFail
    ELSE ParseChars(s, j + 2, Append(acc, Escape(s[j + 1])))

ParseString(s, i) ==
    IF i <= Len(s) /\ s[i] = 34 THEN ParseChars(s, i + 1, <<>>) ELSE ParseFail

\* the place after the digits that start at j
DigitsEnd(s, j) ==
    CHOOSE k \in j..(Len(s) + 1) :
        (k > Len(s) \/ ~IsDigit(s[k])) /\ \A i \in j..(k - 1) : IsDigit(s[i])

\* the exponent, as written: its digits
ParseDigits(s, j) == [d |-> SubSeq(s, j, DigitsEnd(s, j) - 1), i |-> DigitsEnd(s, j)]

HasDigit(s, j) == j <= Len(s) /\ IsDigit(s[j])

\* the integer n, not below zero, in limbs
BigOfInt(n) ==
    BigTrim(<<n % BigBase, (n \div BigBase) % BigBase, n \div (BigBase * BigBase)>>)

\* p + e for an integer p and a number e in limbs: its sign and its size
SignedSum(p, e) ==
    IF p >= 0 THEN [neg |-> FALSE, m |-> BigAdd(BigOfInt(p), e)]
    ELSE IF BigCmp(e, BigOfInt(0 - p)) >= 0
    THEN [neg |-> FALSE, m |-> BigSub(e, BigOfInt(0 - p))]
    ELSE [neg |-> TRUE, m |-> BigSub(BigOfInt(0 - p), e)]

\* the place of the point as an integer; a place beyond the exponents of
\* the doubles is one past them, where every place denotes the same double
\* (Infinity above, zero below)
Place(sum) ==
    IF BigCmp(sum.m, BigOfInt(0 - MinExponent)) > 0
    THEN (IF sum.neg THEN MinExponent - 1 ELSE 1 - MinExponent)
    ELSE IF sum.neg THEN 0 - Limb(sum.m, 1) ELSE Limb(sum.m, 1)

\* p + e, or p - e: the place of the point of a decimal with the point at
\* p and the exponent e
PointAt(p, minus, e) ==
    IF minus THEN 0 - Place(SignedSum(0 - p, e)) ELSE Place(SignedSum(p, e))

\* the decimal 0.d * 10^(p + e), or 10^(p - e), of which lz digits are
\* zeros before the first other digit
Decimal(neg, d, lz, p, minus, e) ==
    Number(neg, SubSeq(d, lz + 1, Len(d)), PointAt(p - lz, minus, BigTrim(BigOfDigits(e))))

DecimalOf(neg, d, p, minus, e) == Decimal(neg, d, LeadingZeros(d), p, minus, e)

\* the number read: integer digits s[a..b-1], fraction digits s[b+1..c-1]
\* if c > b, exponent digits e after a minus sign or not, the text ending
\* before `next`
NumberRead(s, neg, a, b, c, minus, e, next) ==
    ParseOk(DecimalOf(neg, SubSeq(s, a, b - 1) \o SubSeq(s, b + 1, c - 1), b - a, minus, e),
            next)

ExponentValue(s, neg, a, b, c, minus, d) ==
    NumberRead(s, neg, a, b, c, minus, d.d, d.i)

ExponentAt(s, neg, a, b, c, j, minus) ==
    IF ~HasDigit(s, j) THEN ParseFail
    ELSE ExponentValue(s, neg, a, b, c, minus, ParseDigits(s, j))

\* after the integer and the fraction, which ends before c
ExponentPart(s, neg, a, b, c) ==
    IF c <= Len(s) /\ s[c] \in {69, 101} THEN
        IF c + 1 <= Len(s) /\ s[c + 1] \in {43, 45}
        THEN ExponentAt(s, neg, a, b, c, c + 2, s[c + 1] = 45)
        ELSE ExponentAt(s, neg, a, b, c, c + 1, FALSE)
    ELSE NumberRead(s, neg, a, b, c, FALSE, <<>>, c)

\* after the integer digits s[a..b-1]
FractionPart(s, neg, a, b) ==
    IF b <= Len(s) /\ s[b] = 46 THEN
        IF ~HasDigit(s, b + 1) THEN ParseFail
        ELSE ExponentPart(s, neg, a, b, DigitsEnd(s, b + 1))
    ELSE ExponentPart(s, neg, a, b, b)

IntegerAt(s, j, neg) ==
    IF ~HasDigit(s, j) THEN ParseFail
    ELSE IF s[j] = 48 THEN FractionPart(s, neg, j, j + 1)
    ELSE FractionPart(s, neg, j, DigitsEnd(s, j))

ParseNumber(s, i) ==
    IF s[i] = 45 THEN IntegerAt(s, i + 1, TRUE) ELSE IntegerAt(s, i, FALSE)

ParseLiteral(s, i, word, v) ==
    IF i + Len(word) - 1 <= Len(s) /\ SubSeq(s, i, i + Len(word) - 1) = word
    THEN ParseOk(v, i + Len(word))
    ELSE ParseFail

LitTrue == Str("true")
LitFalse == Str("false")
LitNull == Str("null")

RECURSIVE ParseValue(_, _)
RECURSIVE ParseMembers(_, _, _, _)
RECURSIVE ParseItems(_, _, _)

\* after an element: "]" ends the array, "," starts the next element
ItemNext(s, n, items) ==
    IF n > Len(s) THEN ParseFail
    ELSE IF s[n] = 93 THEN ParseOk(JArr(items), n + 1)
    ELSE IF s[n] = 44 THEN ParseItems(s, SkipWs(s, n + 1), items)
    ELSE ParseFail

ItemValue(s, e, items) ==
    IF ~e.ok THEN ParseFail
    ELSE ItemNext(s, SkipWs(s, e.i), Append(items, e.val))

\* elements of an array from the element that starts at j
ParseItems(s, j, items) == ItemValue(s, ParseValue(s, j), items)

ParseArray(s, j) ==
    IF j <= Len(s) /\ s[j] = 93 THEN ParseOk(JArr(<<>>), j + 1)
    ELSE ParseItems(s, j, <<>>)

\* after a member's value: "}" ends the object, "," starts the next member
MemberNext(s, n, keys, vals) ==
    IF n > Len(s) THEN ParseFail
    ELSE IF s[n] = 125 THEN ParseOk(JObj(keys, vals), n + 1)
    ELSE IF s[n] = 44 THEN ParseMembers(s, SkipWs(s, n + 1), keys, vals)
    ELSE ParseFail

MemberValue(s, e, keys, vals) ==
    IF ~e.ok THEN ParseFail
    ELSE MemberNext(s, SkipWs(s, e.i), keys, Append(vals, e.val))

MemberColon(s, c, keys, vals) ==
    IF c > Len(s) \/ s[c] # 58 THEN ParseFail
    ELSE MemberValue(s, ParseValue(s, SkipWs(s, c + 1)), keys, vals)

MemberKey(s, k, keys, vals) ==
    IF ~k.ok THEN ParseFail
    ELSE MemberColon(s, SkipWs(s, k.i), Append(keys, k.val.s), vals)

\* members of an object from the member that starts at j (after white space)
ParseMembers(s, j, keys, vals) == MemberKey(s, ParseString(s, j), keys, vals)

ParseObject(s, j) ==
    IF j <= Len(s) /\ s[j] = 125 THEN ParseOk(JObj(<<>>, <<>>), j + 1)
    ELSE ParseMembers(s, j, <<>>, <<>>)

ParseValue(s, i) ==
    IF i > Len(s) THEN ParseFail
    ELSE IF s[i] = 123 THEN ParseObject(s, SkipWs(s, i + 1))
    ELSE IF s[i] = 91 THEN ParseArray(s, SkipWs(s, i + 1))
    ELSE IF s[i] = 34 THEN ParseString(s, i)
    ELSE IF s[i] = 45 \/ IsDigit(s[i]) THEN ParseNumber(s, i)
    ELSE IF s[i] = 116 THEN ParseLiteral(s, i, LitTrue, JBool(TRUE))
    ELSE IF s[i] = 102 THEN ParseLiteral(s, i, LitFalse, JBool(FALSE))
    ELSE IF s[i] = 110 THEN ParseLiteral(s, i, LitNull, JNull)
    ELSE ParseFail

WholeText(s, r) == IF r.ok /\ SkipWs(s, r.i) = Len(s) + 1 THEN r ELSE ParseFail

\* JSON.parse: ok is FALSE where it throws SyntaxError
JSONParse(s) == WholeText(s, ParseValue(s, SkipWs(s, 1)))

-----------------------------------------------------------------------------
(* Server.js, app.post("/api/chat"): the pure parts of the handler.        *)

CHAT_MODEL == Str("llama3.2:3b-instruct-q4_K_M")

K_messages == Str("messages")
K_prompt == Str("prompt")
K_model == Str("model")
K_options == Str("options")
K_response == Str("response")
K_message == Str("message")
K_content == Str("content")
K_error == Str("error")
K_num_ctx == Str("num_ctx")
K_num_predict == Str("num_predict")
K_keep_alive == Str("keep_alive")

\* { ...obj }: the own enumerable members as a mapping from key to value;
\* those of an array are its elements and those of a text its code units,
\* under their indices; other primitives, null and undefined have none
Members(obj) ==
    CASE obj.t = "object" -> [key \in {obj.k[i] : i \in 1..Len(obj.k)} |-> Get(obj, key)]
      [] obj.t = "array" ->
            [key \in {Digits(i - 1) : i \in 1..Len(obj.a)} |->
                obj.a[CHOOSE i \in 1..Len(obj.a) : Digits(i - 1) = key]]
      [] obj.t = "string" ->
            [key \in {Digits(i - 1) : i \in 1..Len(obj.s)} |->
                JStr(<<obj.s[CHOOSE i \in 1..Len(obj.s) : Digits(i - 1) = key]>>)]
      [] OTHER -> <<>>

\* genOpts with the spread first, { ...options, num_ctx: 2048, ... }: the
\* defaults win over the caller's values
genOptsDefaultsLast(options) ==
    LET defaults == (K_num_ctx :> JNum(2048)) @@ (K_num_predict :> JNum(256))
                        @@ (K_keep_alive :> JStr(Str("4h")))
        given == Members(options)
    IN  [key \in DOMAIN defaults \cup DOMAIN given |->
            IF key \in DOMAIN defaults THEN defaults[key] ELSE given[key]]

\* { num_ctx: 2048, num_predict: 256, keep_alive: "4h", ...options }
genOpts(options) ==
    LET defaults == (K_num_ctx :> JNum(2048)) @@ (K_num_predict :> JNum(256))
                        @@ (K_keep_alive :> JStr(Str("4h")))
        given == Members(options)
    IN  [key \in DOMAIN defaults \cup DOMAIN given |->
            IF key \in DOMAIN given THEN given[key] ELSE defaults[key]]

\* Normalize without `&& messages.length`: an empty array is a conversation
NormalizeAnyArray(reqBody) ==
    LET body == IF Truthy(reqBody) THEN reqBody ELSE JObj(<<>>, <<>>)
        messages == Get(body, K_messages)
        prompt == Get(body, K_prompt)
        model == Get(body, K_model)
        modelName == IF Truthy(model) THEN String(model) ELSE CHAT_MODEL
        opts == genOpts(Get(body, K_options))
    IN  IF messages.t = "array"
        THEN [modelName |-> modelName, endpoint |-> "/api/chat",
              payload |-> [model |-> modelName, messages |-> messages.a,
                           stream |-> TRUE, options |-> opts]]
        ELSE [modelName |-> modelName, endpoint |-> "/api/generate",
              payload |-> [model |-> modelName,
                           prompt |-> IF Truthy(prompt) THEN String(prompt) ELSE <<>>,
                           stream |-> TRUE, options |-> opts]]

\* const { messages, prompt, model, options } = req.body || {}, then the
\* endpoint and the payload of the upstream call
Normalize(reqBody) ==
    LET body == IF Truthy(reqBody) THEN reqBody ELSE JObj(<<>>, <<>>)
        messages == Get(body, K_messages)
        prompt == Get(body, K_prompt)
        model == Get(body, K_model)
        modelName == IF Truthy(model) THEN String(model) ELSE CHAT_MODEL
        opts == genOpts(Get(body, K_options))
    IN  IF messages.t = "array" /\ Len(messages.a) > 0
        THEN [modelName |-> modelName, endpoint |-> "/api/chat",
              payload |-> [model |-> modelName, messages |-> messages.a,
                           stream |-> TRUE, options |-> opts]]
        ELSE [modelName |-> modelName, endpoint |-> "/api/generate",
              payload |-> [model |-> modelName,
                           prompt |-> IF Truthy(prompt) THEN String(prompt) ELSE <<>>,
                           stream |-> TRUE, options |-> opts]]

\* String(model || CHAT_MODEL), line 39, or String(prompt || ""), line 55,
\* throws TypeError
NormalizeThrows(reqBody) ==
    LET body == IF Truthy(reqBody) THEN reqBody ELSE JObj(<<>>, <<>>)
        messages == Get(body, K_messages)
        prompt == Get(body, K_prompt)
        model == Get(body, K_model)
    IN  \/ Truthy(model) /\ StringThrows(model)
        \/ /\ ~(messages.t = "array" /\ Len(messages.a) > 0)
           /\ Truthy(prompt) /\ StringThrows(prompt)

IsText(x) == x.t = "string" /\ x.s # <<>>

One(cond, chunk) == IF cond THEN <<chunk>> ELSE <<>>

\* Extract with `else if` for the second `if`: message.content is looked at
\* only when response is not a text
ExtractExclusive(response, chatChunk, error, wroteSomething) ==
    [out |-> One(IsText(response), String(response))
                 \o One(~IsText(response) /\ IsText(chatChunk), String(chatChunk))
                 \o One(Truthy(error)
                            /\ ~(wroteSomething \/ IsText(response) \/ IsText(chatChunk)),
                        String(error)),
     wrote |-> wroteSomething \/ IsText(response) \/ IsText(chatChunk) \/ Truthy(error)]

\* lines 94-109 on the parsed obj
Extract(response, chatChunk, error, wroteSomething) ==
    [out |-> One(IsText(response), String(response))
                 \o One(IsText(chatChunk), String(chatChunk))
                 \o One(Truthy(error)
                            /\ ~(wroteSomething \/ IsText(response) \/ IsText(chatChunk)),
                        String(error)),
     wrote |-> wroteSomething \/ IsText(response) \/ IsText(chatChunk) \/ Truthy(error)]

\* String(obj.error) is reached, line 107, and throws TypeError
ErrorThrows(response, chatChunk, error, wroteSomething) ==
    /\ Truthy(error)
    /\ ~(wroteSomething \/ IsText(response) \/ IsText(chatChunk))
    /\ StringThrows(error)

\* the try block throws: JSON.parse on a text that is not JSON, obj.response
\* on null, String(obj.error) on an object without a primitive value
Throws(parsed, wroteSomething) ==
    \/ ~parsed.ok
    \/ parsed.val.t = "null"
    \/ ErrorThrows(Get(parsed.val, K_response),
                   Get(Get(parsed.val, K_message), K_content),
                   Get(parsed.val, K_error), wroteSomething)

\* TryLine with an empty catch block: a line that does not parse is dropped
TryLineDropping(parsed, line, wroteSomething) ==
    IF Throws(parsed, wroteSomething)
    THEN [out |-> <<>>, wrote |-> wroteSomething]
    ELSE Extract(Get(parsed.val, K_response),
                 Get(Get(parsed.val, K_message), K_content),
                 Get(parsed.val, K_error), wroteSomething)

\* lines 90-114: the try block, and the catch block where it throws
TryLine(parsed, line, wroteSomething) ==
    IF Throws(parsed, wroteSomething)
    THEN [out |-> <<line>>, wrote |-> TRUE]
    ELSE Extract(Get(parsed.val, K_response),
                 Get(Get(parsed.val, K_message), K_content),
                 Get(parsed.val, K_error), wroteSomething)

\* the body of `for (const line of lines)`: what one line writes to the
\* client and the new value of wroteSomething
HandleLine(line, wroteSomething) ==
    IF trim(line) = <<>> THEN [out |-> <<>>, wrote |-> wroteSomething]
    ELSE TryLine(JSONParse(line), line, wroteSomething)

Sofar(out, h) == [out |-> out \o h.out, wrote |-> h.wrote]

\* HandleLines walking the lines of a read from the last to the first
RECURSIVE HandleLinesBackwards(_, _, _)
HandleLinesBackwards(lines, i, acc) ==
    IF Now(acc) /\ i > Len(lines) THEN acc
    ELSE HandleLinesBackwards(lines, i + 1,
             Sofar(acc.out, HandleLine(lines[Len(lines) + 1 - i], acc.wrote)))

RECURSIVE HandleLines(_, _, _)
HandleLines(lines, i, acc) ==
    IF Now(acc) /\ i > Len(lines) THEN acc
    ELSE HandleLines(lines, i + 1, Sofar(acc.out, HandleLine(lines[i], acc.wrote)))

\* Handled with `lines.shift()` for `lines.pop()`: the buffer keeps the
\* first piece of the split, not the last
HandledShifting(d, lines, h) ==
    [decoder |-> d.st, buffer |-> lines[1], out |-> h.out, wrote |-> h.wrote]

\* line 86 and the state after the for loop of one read
Handled(d, lines, h) ==
    [decoder |-> d.st, buffer |-> Last(lines), out |-> h.out, wrote |-> h.wrote]

Decoded(d, lines, wroteSomething) ==
    Handled(d, lines,
            HandleLines(Front(lines), 1, [out |-> <<>>, wrote |-> wroteSomething]))

Buffered(d, buffer, wroteSomething) ==
    Decoded(d, split(buffer \o d.out), wroteSomething)

\* ReadChunk with `buffer = decoder.decode(...)` for `buffer += ...`: the
\* unfinished line of the reads before is lost
ReadChunkForgetting(decoder, buffer, wroteSomething, value) ==
    Buffered(decode(decoder, value), <<>>, wroteSomething)

\* one iteration of the read loop on the chunk `value`: lines 84-115
ReadChunk(decoder, buffer, wroteSomething, value) ==
    Buffered(decode(decoder, value), buffer, wroteSomething)

\* lines 121-124: res.write(x) throws TypeError on an x that is not text,
\* which the catch around it answers by writing the buffer
FlushFields(response, chatChunk, buffer, wroteSomething) ==
    IF Truthy(response) /\ response.t # "string"
    THEN [out |-> <<buffer>>, wrote |-> TRUE]
    ELSE IF Truthy(chatChunk) /\ chatChunk.t # "string"
    THEN [out |-> One(Truthy(response), String(response)) \o <<buffer>>,
          wrote |-> TRUE]
    ELSE [out |-> One(Truthy(response), String(response))
                      \o One(Truthy(chatChunk), String(chatChunk)),
          wrote |-> wroteSomething \/ Truthy(response) \/ Truthy(chatChunk)]

TryFlush(parsed, buffer, wroteSomething) ==
    IF ~parsed.ok \/ parsed.val.t = "null"
    THEN [out |-> <<buffer>>, wrote |-> TRUE]
    ELSE FlushFields(Get(parsed.val, K_response),
                     Get(Get(parsed.val, K_message), K_content),
                     buffer, wroteSomething)

\* "flush remaining partial": lines 118-129
FlushPartial(buffer, wroteSomething) ==
    IF trim(buffer) = <<>> THEN [out |-> <<>>, wrote |-> wroteSomething]
    ELSE TryFlush(JSONParse(buffer), buffer, wroteSomething)

-----------------------------------------------------------------------------
(* The upstream (Ollama) as the handler sees it: the reply to fetch, its   *)
(* body a byte stream that arrives in reads of any size.                   *)

MaxSegs == 2

\* line texts of the NDJSON stream, as bytes
Contents ==
    { Str("{\"response\":\"He\"}"),
      Str("{\"message\":{\"content\":\"llo\"}}"),
      Str("{\"response\":\"") \o <<195, 169>> \o Str("\"}"),
      Str("{\"error\":\"bad\"}"),
      Str("{}"),
      Str("null"),
      Str("oops"),
      Str(" "),
      <<239, 187, 191>> \o Str("[0.5]") }

\* a line with its newline, or without (the end of a stream, or a line
\* that the next segment continues)
Segments == Contents \cup {c \o <<10>> : c \in Contents} \cup {<<10>>}

\* the segments after the second: a fragment, an error and a raw line
Further ==
    { Str("{\"response\":\"He\"}") \o <<10>>, Str("{\"error\":\"bad\"}") \o <<10>>,
      Str("oops") }

Longer(shorter, segments) == shorter \cup {s \o g : s \in shorter, g \in segments}

\* the streams of at most n segments
RECURSIVE StreamsOf(_)
StreamsOf(n) ==
    IF n = 0 THEN {<<>>}
    ELSE Longer(StreamsOf(n - 1), IF n > 2 THEN Further ELSE Segments)

Streams == StreamsOf(MaxSegs)

\* r of `const r = await fetch(...)`: r.ok, r.body (hasBody), the bytes of
\* the body, and whether r.text() can read them (it rejects when it cannot)
Reply(ok, hasBody, bytes, readable) ==
    [ok |-> ok, hasBody |-> hasBody, bytes |-> bytes, readable |-> readable]

NoReply == Reply(FALSE, FALSE, <<>>, TRUE)

FailureReplies ==
    { Reply(FALSE, TRUE, Str("oom"), TRUE), Reply(FALSE, TRUE, Str("oom"), FALSE),
      Reply(FALSE, TRUE, <<239, 187, 191, 239, 187, 191, 111, 9, 195>>, TRUE),
      Reply(FALSE, TRUE, <<>>, TRUE), Reply(FALSE, FALSE, <<>>, TRUE),
      Reply(TRUE, FALSE, <<>>, TRUE) }

-----------------------------------------------------------------------------
(* State.                                                                  *)

VARIABLES
    relay,       \* per request of POST /api/chat: the handler's locals and res
    warm,        \* the position of warmUp(), "none" until the server listens
    messages,    \* Chat: the conversation, a sequence of turns
    input,       \* Chat: the text of the input box
    busy,        \* Chat: a send is in progress
    call         \* Chat: the position and the locals of the send in progress

client == <<messages, input, busy, call>>
vars == <<relay, warm, messages, input, busy, call>>

Req == {1, 2}

\* res of a request nobody has answered yet
FreshRes ==
    [statusCode |-> 200, contentType |-> "", headersSent |-> FALSE,
     sentStatus |-> 0, written |-> <<>>, json |-> <<>>, ended |-> FALSE]

IdleHandler ==
    [pc |-> "idle", body |-> Undefined, modelName |-> <<>>, endpoint |-> "",
     payload |-> <<>>, r |-> NoReply, pos |-> 0, decoder |-> TextDecoder,
     buffer |-> <<>>, wroteSomething |-> FALSE, err |-> "", res |-> FreshRes]

\* res.write(chunk): the first write sends the status line and the headers
Write(res, chunks) ==
    IF chunks = <<>> THEN res
    ELSE [res EXCEPT !.written = @ \o chunks,
                     !.headersSent = TRUE,
                     !.sentStatus = IF res.headersSent THEN @ ELSE res.statusCode]

\* res.end()
End(res) ==
    [res EXCEPT !.ended = TRUE, !.headersSent = TRUE,
                !.sentStatus = IF res.headersSent THEN @ ELSE res.statusCode]

\* res.status(code).json(doc) on a response whose headers are not sent: a
\* Content-Type set before is kept
StatusJson(res, code, doc) ==
    [res EXCEPT !.statusCode = code,
                !.contentType = IF @ = "" THEN "application/json; charset=utf-8" ELSE @,
                !.headersSent = TRUE, !.sentStatus = code,
                !.json = <<doc>>, !.ended = TRUE]

-----------------------------------------------------------------------------
(* Request bodies of POST /api/chat.                                       *)

Turn(role, content) == [role |-> role, content |-> content]

Hello == Turn("user", Str("hello"))
Hi == Turn("assistant", Str("Hi"))

Bodies ==
    { Undefined,
      JObj(<<>>, <<>>),
      JObj(<<K_messages>>, <<JArr(<<Hello>>)>>),
      JObj(<<K_messages, K_model, K_options>>,
           <<JArr(<<Hello, Hi, Hello>>), JStr(Str("m1")),
             JObj(<<K_num_predict, Str("seed")>>, <<JNum(8), JNum(1)>>)>>),
      JObj(<<K_messages, K_prompt>>, <<JArr(<<Hello>>), JStr(Str("why"))>>),
      JObj(<<K_messages, K_prompt>>, <<JArr(<<>>), JStr(Str("why"))>>),
      JObj(<<K_messages, K_prompt, K_model>>,
           <<JStr(Str("hello")), JStr(Str("why")), JStr(<<>>)>>),
      JObj(<<K_prompt, K_model>>, <<JStr(Str("why")), JStr(Str("m1"))>>),
      JObj(<<K_prompt>>, <<JNum(5)>>),
      JObj(<<K_prompt, K_model>>,
           <<JStr(Str("why")), JObj(<<K_toString>>, <<JNum(1)>>)>>),
      JObj(<<K_prompt, K_model, K_options>>,
           <<JArr(<<JStr(Str("p")), JStr(Str("q"))>>), JArr(<<JStr(Str("m1"))>>),
             JStr(Str("ab"))>>),
      JObj(<<K_messages>>, <<JNull>>) }

RelayBodies == {JObj(<<K_messages>>, <<JArr(<<Hello>>)>>)}

-----------------------------------------------------------------------------
(* app.post("/api/chat", async (req, res) => ...): one action per stretch  *)
(* of the handler between two awaits.                                      *)

\* { error: "server_error", detail: String(err) }: line 135
ServerError(err) ==
    [error |-> "server_error",
     detail |-> CASE err = "fetch" -> Str("TypeError: fetch failed")
                  [] err = "convert" ->
                        Str("TypeError: Cannot convert object to primitive value")
                  [] OTHER -> Str("TypeError: terminated")]

\* the status of the catch block's answer: line 135
CatchStatus == 500

Fetching(reqBody, n) ==
    [IdleHandler EXCEPT !.pc = "fetch", !.body = reqBody, !.modelName = n.modelName,
                        !.endpoint = n.endpoint, !.payload = n.payload]

\* lines 39 or 55 throw: the catch block answers, lines 133-136
Thrown(reqBody) ==
    [IdleHandler EXCEPT !.pc = "closed", !.body = reqBody, !.err = "convert",
                        !.res = StatusJson(@, CatchStatus, ServerError("convert"))]

\* lines 38-63: the request arrives, the upstream call is issued
Post(q, reqBody) ==
    /\ warm # "none"
    /\ relay[q].pc \in {"idle", "closed", "rejected"}
    /\ relay' = [relay EXCEPT ![q] =
           IF NormalizeThrows(reqBody) THEN Thrown(reqBody)
           ELSE Fetching(reqBody, Normalize(reqBody))]

\* { error: "ollama_error", detail }: line 67
OllamaError(detail) == [error |-> "ollama_error", detail |-> detail]

\* the status of the answer to an upstream failure: line 67
UpstreamFailureStatus == 502

\* fetch rejects (Ollama cannot be reached): lines 133-136
FetchRejects(q) ==
    /\ relay[q].pc = "fetch"
    /\ relay' = [relay EXCEPT ![q].pc = "closed", ![q].err = "fetch",
                              ![q].res = StatusJson(@, CatchStatus, ServerError("fetch"))]
    /\ UNCHANGED <<client, warm>>

\* fetch resolves: lines 65-78 up to the next await
FetchResolves(q, reply) ==
    /\ relay[q].pc = "fetch"
    /\ IF ~reply.ok \/ ~reply.hasBody
       THEN relay' = [relay EXCEPT ![q].pc = "text", ![q].r = reply]
       ELSE relay' = [relay EXCEPT ![q].pc = "read", ![q].r = reply,
                                   ![q].res.contentType = "text/plain; charset=utf-8",
                                   ![q].pos = 0,
                                   ![q].decoder = TextDecoder,
                                   ![q].buffer = <<>>,
                                   ![q].wroteSomething = FALSE]
    /\ UNCHANGED <<client, warm>>

\* await r.text().catch(() => ""): line 66
BodyText(r) == IF r.readable THEN utf8DecodeBytes(r.bytes) ELSE <<>>

\* r.text() settles: lines 66-67
TextSettles(q) ==
    /\ relay[q].pc = "text"
    /\ relay' = [relay EXCEPT ![q].pc = "closed",
                              ![q].res = StatusJson(@, UpstreamFailureStatus,
                                                    OllamaError(BodyText(relay[q].r)))]
    /\ UNCHANGED <<client, warm>>

AfterRead(h, n, c) ==
    [h EXCEPT !.pos = @ + n, !.decoder = c.decoder, !.buffer = c.buffer,
              !.wroteSomething = c.wrote, !.res = Write(@, c.out)]

\* Read with `buffer` and `wroteSomething` declared outside the handler:
\* a read continues from what the other request left in them
ReadSharing(q, n) ==
    /\ relay[q].pc = "read"
    /\ n \in 1..(Len(relay[q].r.bytes) - relay[q].pos)
    /\ relay' = [relay EXCEPT ![q] =
           AfterRead(@, n, ReadChunk(@.decoder, relay[3 - q].buffer,
                                     relay[3 - q].wroteSomething,
                                     SubSeq(@.r.bytes, @.pos + 1, @.pos + n)))]
    /\ UNCHANGED <<client, warm>>

\* reader.read() yields the next n bytes: lines 81-115
Read(q, n) ==
    /\ relay[q].pc = "read"
    /\ n \in 1..(Len(relay[q].r.bytes) - relay[q].pos)
    /\ relay' = [relay EXCEPT ![q] =
           AfterRead(@, n, ReadChunk(@.decoder, @.buffer, @.wroteSomething,
                                     SubSeq(@.r.bytes, @.pos + 1, @.pos + n)))]
    /\ UNCHANGED <<client, warm>>

AfterDone(h, f) ==
    [h EXCEPT !.pc = "closed", !.wroteSomething = f.wrote,
              !.res = End(Write(Write(@, f.out), One(~f.wrote, <<>>)))]

\* reader.read() reports done: lines 82, 118-132
ReadDone(q) ==
    /\ relay[q].pc = "read"
    /\ relay[q].pos = Len(relay[q].r.bytes)
    /\ relay' = [relay EXCEPT ![q] =
           AfterDone(@, FlushPartial(@.buffer, @.wroteSomething))]
    /\ UNCHANGED <<client, warm>>

\* reader.read() rejects (the upstream connection breaks): lines 133-136.
\* With the headers sent, res.status(500) only sets the property and
\* res.json throws ERR_HTTP_HEADERS_SENT out of the catch block: the
\* handler's promise rejects and res.end() is never called.
ReadRejects(q) ==
    /\ relay[q].pc = "read"
    /\ IF relay[q].res.headersSent
       THEN relay' = [relay EXCEPT ![q].pc = "rejected", ![q].err = "read",
                                   ![q].res.statusCode = CatchStatus]
       ELSE relay' = [relay EXCEPT ![q].pc = "closed", ![q].err = "read",
                                   ![q].res = StatusJson(@, CatchStatus,
                                                         ServerError("read"))]
    /\ UNCHANGED <<client, warm>>

\* the handler from the upstream call on
Upstream(q, streams) ==
    \/ FetchRejects(q)
    \/ \E reply \in FailureReplies \cup {Reply(TRUE, TRUE, s, TRUE) : s \in streams} :
          FetchResolves(q, reply)
    \/ TextSettles(q)
    \/ \E n \in 1..Len(relay[q].r.bytes) : Read(q, n)
    \/ ReadDone(q)
    \/ ReadRejects(q)

Handler(q, bodies, streams) ==
    \/ \E b \in bodies : Post(q, b) /\ UNCHANGED <<client, warm>>
    \/ Upstream(q, streams)

-----------------------------------------------------------------------------
(* app.listen(PORT, callback) and warmUp(): the callback starts the        *)
(* warm-up without awaiting it; warmUp() catches whatever its awaits throw. *)

\* lines 167-172: the server listens; warmUp() runs up to its fetch
Listening ==
    /\ warm = "none"
    /\ warm' = "fetch"
    /\ UNCHANGED <<relay, client>>

\* line 149: the upstream answers the warm-up, with any status
WarmUpFetchResolves ==
    /\ warm = "fetch"
    /\ warm' = "text"
    /\ UNCHANGED <<relay, client>>

\* lines 160-161: the body of the answer is read, "Warmed model" is logged
WarmUpTextSettles ==
    /\ warm = "text"
    /\ warm' = "warmed"
    /\ UNCHANGED <<relay, client>>

\* a warm-up whose failure is not caught and ends the process
WarmUpFailsUncaught ==
    /\ warm \in {"fetch", "text"}
    /\ warm' = "failed"
    /\ relay' = [q \in Req |-> [relay[q] EXCEPT !.pc = "exited"]]
    /\ UNCHANGED client

\* lines 162-164: fetch or r.text() rejects; the catch logs a warning
WarmUpFails ==
    /\ warm \in {"fetch", "text"}
    /\ warm' = "failed"
    /\ UNCHANGED <<relay, client>>

warmUp ==
    \/ WarmUpFetchResolves
    \/ WarmUpTextSettles
    \/ WarmUpFails

-----------------------------------------------------------------------------
(* The response on the wire: res.json(doc) sends JSON.stringify(doc),      *)
(* res.write(text) sends the UTF-8 bytes of text.                          *)

IsHigh(u) == u >= 55296 /\ u <= 56319
IsLow(u) == u >= 56320 /\ u <= 57343

HexDigit(d) == IF d < 10 THEN 48 + d ELSE 87 + d

\* \uXXXX, the digits in lower case
UnicodeEscape(u) ==
    <<92, 117, HexDigit(u \div 4096), HexDigit((u \div 256) % 16),
      HexDigit((u \div 16) % 16), HexDigit(u % 16)>>

\* QuoteJSONString on a code unit that is not half of a surrogate pair
Quoted(u) ==
    CASE u = 8 -> <<92, 98>>
      [] u = 9 -> <<92, 116>>
      [] u = 10 -> <<92, 110>>
      [] u = 12 -> <<92, 102>>
      [] u = 13 -> <<92, 114>>
      [] u = 34 -> <<92, 34>>
      [] u = 92 -> <<92, 92>>
      [] OTHER -> IF u < 32 \/ IsHigh(u) \/ IsLow(u)
                  THEN UnicodeEscape(u)
                  ELSE <<u>>

\* a JSON string literal of text
RECURSIVE Quote(_, _, _)
Quote(chars, i, acc) ==
    IF Now(acc) /\ i > Len(chars) THEN acc \o <<34>>
    ELSE IF IsHigh(chars[i]) /\ i < Len(chars) /\ IsLow(chars[i + 1])
    THEN Quote(chars, i + 2, acc \o <<chars[i], chars[i + 1]>>)
    ELSE Quote(chars, i + 1, acc \o Quoted(chars[i]))

\* JSON.stringify({ error, detail })
Stringify(doc) ==
    Str("{\"error\":") \o Quote(Str(doc.error), 1, <<34>>)
        \o Str(",\"detail\":") \o Quote(doc.detail, 1, <<34>>) \o Str("}")

\* the UTF-8 bytes of a code point
Utf8(cp) ==
    IF cp < 128 THEN <<cp>>
    ELSE IF cp < 2048 THEN <<192 + (cp \div 64), 128 + (cp % 64)>>
    ELSE IF cp < 65536
         THEN <<224 + (cp \div 4096), 128 + ((cp \div 64) % 64), 128 + (cp % 64)>>
    ELSE <<240 + (cp \div 262144), 128 + ((cp \div 4096) % 64),
           128 + ((cp \div 64) % 64), 128 + (cp % 64)>>

\* the text as UTF-8: a surrogate pair is one code point, a surrogate alone
\* is sent as U+FFFD
RECURSIVE Encode(_, _, _)
Encode(chars, i, acc) ==
    IF Now(acc) /\ i > Len(chars) THEN acc
    ELSE IF IsHigh(chars[i]) /\ i < Len(chars) /\ IsLow(chars[i + 1])
    THEN Encode(chars, i + 2,
                acc \o Utf8(65536 + (chars[i] - 55296) * 1024 + (chars[i + 1] - 56320)))
    ELSE IF IsHigh(chars[i]) \/ IsLow(chars[i])
    THEN Encode(chars, i + 1, acc \o Utf8(65533))
    ELSE Encode(chars, i + 1, acc \o Utf8(chars[i]))

RECURSIVE Encoded(_)
Encoded(chunks) ==
    IF chunks = <<>> THEN <<>>
    ELSE IF Head(chunks) = <<>> THEN Encoded(Tail(chunks))
    ELSE <<Encode(Head(chunks), 1, <<>>)>> \o Encoded(Tail(chunks))

\* the chunks of the body as they reach the client: an empty write sends
\* no bytes
Wire(res) ==
    Encoded(res.written) \o [i \in 1..Len(res.json) |-> Encode(Stringify(res.json[i]), 1, <<>>)]

-----------------------------------------------------------------------------
(* unnamed/part_000, Chat: the conversation state and send().              *)

HISTORY_WINDOW == 12

MaxSaved == 13
MaxAsk == 1

\* the runs checked split a body after one of its first MaxCut bytes
MaxCut == 1

Greeting == Str("Hi! I") \o <<8217>> \o Str("m your offline AI. Ask me anything.")
Cleared == Str("Chat cleared. How can I help?")
Notice ==
    <<9888, 65039>> \o Str(" Can") \o <<8217>>
        \o Str("t reach server on 3001. Is it running?")
NoResponse == Str("(no response)")

\* a conversation found in localStorage: the greeting, then questions and
\* answers in turn
Saved(n) ==
    [i \in 1..n |->
        IF i = 1 THEN Turn("assistant", Greeting)
        ELSE Turn(IF i % 2 = 0 THEN "user" ELSE "assistant", Digits(i))]

SavedLens == {n \in (MaxSaved - 4)..MaxSaved : n % 2 = 1}

\* what the user types: blanks, or a question with blanks around it, the
\* questions of a conversation in their order
Question(k) == Str(" q") \o Digits(k) \o Str(" ")
Typed(m) ==
    {Str(" ")} \cup
    {Question(k) : k \in {n \in 1..MaxAsk :
        \A j \in 1..(n - 1) : \E i \in DOMAIN m : m[i].content = trim(Question(j))}}

\* slice keeping the first elements instead of the last
sliceFirst(array, start) ==
    SubSeq(array, 1, IF 0 - start > Len(array) THEN Len(array) ELSE 0 - start)

\* Array.prototype.slice(start)
slice(array, start) ==
    LET from == IF start < 0
                THEN (IF Len(array) + start < 0 THEN 0 ELSE Len(array) + start)
                ELSE (IF start > Len(array) THEN Len(array) ELSE start)
    IN  SubSeq(array, from + 1, Len(array))

\* [...messages, user].slice(-HISTORY_WINDOW).map(({ role, content }) => ...)
convo(history, user) ==
    LET kept == slice(Append(history, user), 0 - HISTORY_WINDOW)
    IN  [i \in 1..Len(kept) |-> [role |-> kept[i].role, content |-> kept[i].content]]

\* { messages: convo, options: { num_predict: 256 } } as the relay's
\* express.json() reads it
RequestBody(turns) ==
    JObj(<<K_messages, K_options>>,
         <<JArr(turns), JObj(<<K_num_predict>>, <<JNum(256)>>)>>)

NoCall == [pc |-> "none", body |-> Undefined, got |-> 0, decoder |-> TextDecoder]

\* copy[copy.length - 1] = { role: "assistant", content: reply }: an empty
\* conversation gets no turn
ReplaceLast(m, content) ==
    IF m = <<>> THEN m
    ELSE Append(Front(m), Turn("assistant", content))

\* [...m.slice(0, -1), { role: "assistant", content }] of the catch block
SliceAndAppend(m, content) == Append(Front(m), Turn("assistant", content))

\* if (last?.role === "assistant") last.content += chunk
AppendToLast(m, chunk) ==
    IF m # <<>> /\ Last(m).role = "assistant"
    THEN Append(Front(m), Turn("assistant", Last(m).content \o chunk))
    ELSE m

\* onChange of the textarea, which is disabled while busy:
\* setInput(e.target.value); the user asks a question once in a conversation
Type(text) ==
    /\ ~busy
    /\ input # text
    /\ \A i \in DOMAIN messages : messages[i].content # trim(text)
    /\ input' = text
    /\ UNCHANGED <<relay, warm, messages, busy, call>>

\* send() up to `await fetch`: lines 25-45
send ==
    /\ trim(input) # <<>>
    /\ ~busy
    /\ input' = <<>>
    /\ busy' = TRUE
    /\ messages' = messages \o <<Turn("user", trim(input)), Turn("assistant", <<>>)>>
    /\ call' = [NoCall EXCEPT !.pc = "fetch",
                              !.body = RequestBody(convo(messages, Turn("user", trim(input))))]
    /\ UNCHANGED <<relay, warm>>

\* the request reaches the relay
Arrive ==
    /\ call.pc = "fetch"
    /\ Post(1, call.body)
    /\ call' = [call EXCEPT !.pc = "wait"]
    /\ UNCHANGED <<warm, messages, input, busy>>

\* Fails without the finally block: busy stays as it is
FailsBusy ==
    /\ messages' = SliceAndAppend(messages, Notice)
    /\ busy' = busy
    /\ call' = NoCall
    /\ UNCHANGED <<relay, warm, input>>

\* catch, then finally: lines 76-85
Fails ==
    /\ messages' = SliceAndAppend(messages, Notice)
    /\ busy' = FALSE
    /\ call' = NoCall
    /\ UNCHANGED <<relay, warm, input>>

\* fetch rejects: the relay cannot be reached
ClientFetchRejects ==
    /\ call.pc = "fetch"
    /\ Fails

IsJson(ct) == ct = "application/json; charset=utf-8"

\* fetch resolves with the status line and the headers: lines 47-64
ClientFetchResolves(hasBody) ==
    /\ call.pc = "wait"
    /\ relay[1].res.headersSent
    /\ IF IsJson(relay[1].res.contentType)
       THEN call' = [call EXCEPT !.pc = "json"] /\ UNCHANGED <<relay, warm, messages, input, busy>>
       ELSE IF ~hasBody THEN Fails
       ELSE call' = [call EXCEPT !.pc = "read", !.got = 0, !.decoder = TextDecoder]
            /\ UNCHANGED <<relay, warm, messages, input, busy>>

\* data?.response ?? "(no response)": a text as its code units, any other
\* value as it is
reply(data) ==
    IF Get(data, K_response).t \in {"undefined", "null"} THEN NoResponse
    ELSE IF Get(data, K_response).t = "string" THEN Get(data, K_response).s
    ELSE Get(data, K_response)

\* await r.json() settles: lines 51-58, then finally; the page's fetch
\* decodes the body as a TextDecoder does
JsonSettles ==
    /\ call.pc = "json"
    /\ relay[1].res.ended
    /\ IF JSONParse(Utf8Decode(Flatten(Wire(relay[1].res)))).ok
       THEN /\ messages' = ReplaceLast(messages,
                   reply(JSONParse(Utf8Decode(Flatten(Wire(relay[1].res)))).val))
            /\ busy' = FALSE
            /\ call' = NoCall
            /\ UNCHANGED <<relay, warm, input>>
       ELSE Fails

Received(m, c, d, n) ==
    /\ messages' = IF d.out = <<>> THEN m ELSE AppendToLast(m, d.out)
    /\ call' = [c EXCEPT !.got = @ + n, !.decoder = d.st]

\* the bytes of the body sent so far, of which the page has read call.got:
\* the transport joins and splits the relay's writes
Sent(res) == Flatten(Wire(res))

ReadsTo(sent, k) ==
    /\ k > call.got
    /\ k <= Len(sent)
    /\ Received(messages, call,
                decode(call.decoder, SubSeq(sent, call.got + 1, k)), k - call.got)

\* reader.read() yields a chunk, the bytes sent up to the k-th, which may
\* be any of those that wait to be read: lines 66-75
ClientRead(k) ==
    /\ call.pc = "read"
    /\ ReadsTo(Sent(relay[1].res), k)
    /\ UNCHANGED <<relay, warm, input, busy>>

\* the chunk ends of the runs checked, while the page reads: after one of
\* the first MaxCut bytes of the body, or after the last byte sent so far
ReadEnds ==
    IF call.pc = "read" THEN (1..MaxCut) \cup {Len(Sent(relay[1].res))} ELSE {}

\* reader.read() reports done: line 67, then finally
ClientReadDone ==
    /\ call.pc = "read"
    /\ call.got = Len(Sent(relay[1].res))
    /\ relay[1].res.ended
    /\ busy' = FALSE
    /\ call' = NoCall
    /\ UNCHANGED <<relay, warm, messages, input>>

\* reader.read() rejects: the relay's handler has failed after the headers
\* and the connection is torn down
ClientReadRejects ==
    /\ call.pc = "read"
    /\ relay[1].pc = "rejected"
    /\ Fails

\* clearChat(): lines 96-99
clearChat ==
    /\ messages # <<Turn("assistant", Cleared)>>
    /\ messages' = <<Turn("assistant", Cleared)>>
    /\ UNCHANGED <<relay, warm, input, busy, call>>

Chat ==
    \/ \E text \in Typed(messages) : Type(text)
    \/ send
    \/ Arrive
    \/ ClientFetchRejects
    \/ \E hasBody \in BOOLEAN : ClientFetchResolves(hasBody)
    \/ JsonSettles
    \/ \E k \in ReadEnds : ClientRead(k)
    \/ ClientReadDone
    \/ ClientReadRejects
    \/ clearChat

-----------------------------------------------------------------------------
(* The system.                                                             *)

\* the stream the relay's upstream answers the client's questions with
ChatStreams ==
    { Str("{\"response\":\"") \o <<195, 169>> \o Str("\"}") \o <<10>> \o Str("oops") }

\* the streams of the requests made to the relay directly
DirectStreams ==
    { Str("{\"response\":\"He\"}") \o <<10>> \o Str("oops"),
      Str("{\"response\":\"He\",\"message\":{\"content\":\"llo\"}}") \o <<10>>
          \o Str("{}") \o <<10>>,
      Str("{\"error\":1e-400}") \o <<10>> \o Str("{\"response\":\"He\"}") \o <<10>> }

IdleChat ==
    /\ input = <<>>
    /\ busy = FALSE
    /\ call = NoCall

\* nothing in localStorage
InitFresh ==
    /\ relay = [q \in Req |-> IdleHandler]
    /\ warm = "none"
    /\ messages = <<Turn("assistant", Greeting)>>
    /\ IdleChat

Init ==
    /\ relay = [q \in Req |-> IdleHandler]
    /\ warm = "none"
    /\ messages \in {<<Turn("assistant", Greeting)>>} \cup {Saved(n) : n \in SavedLens}
    /\ IdleChat

\* the client and the relay that serves it
Next ==
    \/ Listening
    \/ Chat
    \/ Upstream(1, ChatStreams)

Spec == Init /\ [][Next]_vars

\* a step of a request in progress: of the relay's handler or of send()
Progress ==
    \/ Upstream(1, ChatStreams)
    \/ Arrive
    \/ ClientFetchRejects
    \/ \E hasBody \in BOOLEAN : ClientFetchResolves(hasBody)
    \/ JsonSettles
    \/ \E k \in ReadEnds : ClientRead(k)
    \/ ClientReadDone
    \/ ClientReadRejects

\* an await of the request in progress can settle (ENABLED <<Progress>>_vars,
\* written out): the handler is at one of its awaits; fetch has not reached
\* the relay; the headers, the JSON document, a chunk or the end of the body
\* has arrived; or the relay has abandoned the response
Pending ==
    \/ relay[1].pc \in {"fetch", "text", "read"}
    \/ call.pc = "fetch"
    \/ call.pc = "wait" /\ relay[1].res.headersSent
    \/ call.pc = "json" /\ relay[1].res.ended
    \/ call.pc = "read" /\ (\/ relay[1].res.ended
                            \/ relay[1].pc = "rejected"
                            \/ call.got < Len(Sent(relay[1].res)))

\* a step of Progress, told from the other steps of Next by what it
\* changes: the relay's request, or the call in progress (send() alone
\* starts one)
Settles == relay' # relay \/ (call.pc # "none" /\ call' # call)

\* the steps of Next that Settles holds of are those of Progress
ProgressSettles == [][Progress <=> Settles]_vars

\* weak fairness of Progress, WF_vars(Progress) with Pending for ENABLED and
\* Settles for the step: an await that can settle does settle
Settling == []<>(~Pending) \/ []<><<Settles>>_vars

SpecSettling == Init /\ [][Next]_vars /\ Settling

\* the relay alone: one request, any stream, any reads
NextRelay == Listening \/ Handler(1, RelayBodies, Streams)

SpecRelay == InitFresh /\ [][NextRelay]_vars

\* requests of any shape, made to the relay directly
NextDirect == Listening \/ Handler(2, Bodies, DirectStreams)

\* the relay from boot on: the warm-up and a request side by side
NextBoot == Listening \/ warmUp \/ Handler(1, RelayBodies, DirectStreams)

\* the streams of two requests in progress at once
ConcurrentStreams ==
    { Str("{\"response\":\"He\"}") \o <<10>> \o Str("oops"),
      Str("{\"error\":\"bad\"}") \o <<10>> \o Str("{}") }

\* two requests side by side, their awaits settling in any order
NextConcurrent ==
    \/ Listening
    \/ Handler(1, RelayBodies, ConcurrentStreams)
    \/ Handler(2, RelayBodies, ConcurrentStreams)

\* weak fairness of the steps of the second request alone, with its awaits
\* written out for ENABLED: the upstream of the first may stall for ever
ServingSecond ==
    \/ []<>(relay[2].pc \notin {"fetch", "text", "read"})
    \/ []<><<Upstream(2, ConcurrentStreams)>>_vars

SpecConcurrent == InitFresh /\ [][NextConcurrent]_vars /\ ServingSecond

\* weak fairness of the handler's steps alone, with its awaits written out
\* for ENABLED: an await of the handler settles, the warm-up may never
Serving ==
    \/ []<>(relay[1].pc \notin {"fetch", "text", "read"})
    \/ []<><<Upstream(1, DirectStreams)>>_vars

SpecServing == InitFresh /\ [][NextBoot]_vars /\ Serving

SpecDirect == InitFresh /\ [][NextDirect]_vars

-----------------------------------------------------------------------------
(* Properties of the relay.                                                *)

\* a request whose upstream reply is being, or has been, streamed
Streamed(h) == h.pc \in {"read", "closed", "rejected"} /\ h.r.ok /\ h.r.hasBody

\* a request whose stream ended and was answered to the end
Finished(h) == h.pc = "closed" /\ h.r.ok /\ h.r.hasBody /\ h.err = ""

\* the text of a byte stream and its lines, the last one unterminated
TextOf(bytes) == decode(TextDecoder, bytes).out
LinesOf(bytes) == split(TextOf(bytes))

\* what the lines before line k write, each handled on its own in turn
RECURSIVE Before(_, _)
Before(lines, k) ==
    IF k <= 1 THEN [out |-> <<>>, wrote |-> FALSE]
    ELSE LET b == Before(lines, k - 1)
             h == HandleLine(lines[k - 1], b.wrote)
         IN  [out |-> b.out \o h.out, wrote |-> h.wrote]

\* the chunks written when all the bytes arrive in one read
SingleRead(bytes) ==
    LET c == ReadChunk(TextDecoder, <<>>, FALSE, bytes)
        f == FlushPartial(c.buffer, c.wrote)
    IN  c.out \o f.out \o One(~f.wrote, <<>>)

\* C1: however the upstream bytes are split into reads, the chunks written
\* to the client are those written when the same bytes arrive in one read:
\* during the loop those of the bytes read so far, at the end those of the
\* loop and the final flush.
ReadChunkingInvariant ==
    \A q \in Req :
        /\ relay[q].pc = "read" =>
              relay[q].res.written
                  = ReadChunk(TextDecoder, <<>>, FALSE,
                              SubSeq(relay[q].r.bytes, 1, relay[q].pos)).out
        /\ Finished(relay[q]) =>
              relay[q].res.written = SingleRead(relay[q].r.bytes)

\* a read ended inside a multi-byte character, in the middle of a line,
\* after an earlier line was written
MidCharacterRead ==
    \E q \in Req :
        /\ relay[q].pc = "read"
        /\ relay[q].decoder.needed > 0
        /\ relay[q].buffer # <<>>
        /\ relay[q].res.written # <<>>

NotJSON(line) == trim(line) # <<>> /\ ~JSONParse(line).ok

\* C2: a line of the stream that is not blank and not JSON, terminated or
\* the final residue, is written as it is, right after the chunks of the
\* lines before it, and the output-produced flag is set.
RawLineForwarded ==
    \A q \in Req :
        Finished(relay[q]) =>
            LET lines == LinesOf(relay[q].r.bytes)
            IN  \A k \in 1..Len(lines) :
                    NotJSON(lines[k]) =>
                        LET at == Len(Before(lines, k).out) + 1
                        IN  /\ at <= Len(relay[q].res.written)
                            /\ relay[q].res.written[at] = lines[k]
                            /\ relay[q].wroteSomething

\* a stream ended whose final residue is not JSON and follows a written line
RawResidueAfterOutput ==
    \E q \in Req :
        /\ Finished(relay[q])
        /\ LET lines == LinesOf(relay[q].r.bytes)
           IN  /\ NotJSON(Last(lines))
               /\ Before(lines, Len(lines)).out # <<>>

\* C3: the text the client has received is the text of the lines read so
\* far, line by line in the order of the stream, and at the end that text
\* followed by the text of the final residue: nothing is reordered, doubled,
\* dropped or added.
FragmentsInLineOrder ==
    \A q \in Req :
        Streamed(relay[q]) =>
            LET lines == LinesOf(SubSeq(relay[q].r.bytes, 1, relay[q].pos))
                done == Before(lines, Len(lines))
                text == Flatten(relay[q].res.written)
            IN  IF Finished(relay[q])
                THEN text = Flatten(done.out)
                                \o Flatten(FlushPartial(Last(lines), done.wrote).out)
                ELSE text = Flatten(done.out)

\* a stream of two lines with a fragment each ended, and the client has the
\* two fragments joined
TwoFragmentsJoined ==
    \E q \in Req :
        /\ Finished(relay[q])
        /\ LET lines == LinesOf(relay[q].r.bytes)
           IN  /\ Len(lines) = 3
               /\ HandleLine(lines[1], FALSE).out = <<Str("He")>>
               /\ HandleLine(lines[2], TRUE).out = <<Str("llo")>>
        /\ Flatten(relay[q].res.written) = Str("Hello")

\* the request took the upstream failure branch (line 65)
UpstreamFailed(h) == h.pc = "closed" /\ h.err = "" /\ (~h.r.ok \/ ~h.r.hasBody)

\* C4: an upstream failure (a failure status, or no body) is answered 502
\* with {error: "upstream_error", detail: the upstream's body text}.
UpstreamErrorAnswer ==
    \A q \in Req :
        UpstreamFailed(relay[q]) =>
            /\ relay[q].res.sentStatus = 502
            /\ relay[q].res.json
                   = <<[error |-> "upstream_error", detail |-> utf8DecodeBytes(relay[q].r.bytes)]>>

\* C5 as claimed: when the upstream fetch itself fails, the client gets 502
\* and nothing was streamed.
UnreachableIs502 ==
    \A q \in Req :
        relay[q].err = "fetch" =>
            relay[q].res.sentStatus = 502 /\ relay[q].res.written = <<>>

\* C6 as claimed: a fault of a read after a fragment was written leaves the
\* status alone, attempts no error answer, and ends the response without an
\* unhandled fault.
FaultAfterOutputEndsStream ==
    \A q \in Req :
        relay[q].err = "read" /\ relay[q].res.written # <<>> =>
            /\ relay[q].pc = "closed"
            /\ relay[q].res.ended
            /\ relay[q].res.sentStatus = 200
            /\ relay[q].res.json = <<>>

\* a line that parses as JSON and has no non-empty response, no
\* message.content and no error
Unrecognized(line) ==
    /\ JSONParse(line).ok
    /\ LET obj == JSONParse(line).val
       IN  /\ Get(obj, K_response) \in {Undefined, JStr(<<>>)}
           /\ Get(Get(obj, K_message), K_content) = Undefined
           /\ Get(obj, K_error) = Undefined

\* C7 as claimed: when every line of an ended stream parses as JSON and has
\* no recognized field, exactly one empty chunk is written and the response
\* is ended.
UnrecognizedStreamIsEmpty ==
    \A q \in Req :
        (/\ Finished(relay[q])
         /\ \A k \in DOMAIN LinesOf(relay[q].r.bytes) :
                \/ LinesOf(relay[q].r.bytes)[k] = <<>>
                \/ Unrecognized(LinesOf(relay[q].r.bytes)[k]))
        => relay[q].res.written = << <<>> >> /\ relay[q].res.ended

-----------------------------------------------------------------------------
(* Properties of the client and of the normalization.                      *)

\* the last n turns of a conversation, oldest first
LastTurns(turns, n) ==
    IF Len(turns) <= n THEN turns
    ELSE [i \in 1..n |-> turns[Len(turns) - n + i]]

\* C9: at every submit the turns sent are the last 12 turns of the
\* conversation with the new user turn, oldest first, and the client's own
\* conversation keeps every turn it had; the relay sends upstream the turns
\* it was sent.
WindowOfTwelveSent ==
    [][ /\ (~busy /\ busy') =>
              /\ Get(call'.body, K_messages).a = LastTurns(Front(messages'), 12)
              /\ Last(Front(messages')) = Turn("user", trim(input))
              /\ SubSeq(messages', 1, Len(messages)) = messages
        /\ (call.pc = "fetch" /\ call'.pc = "wait") =>
              /\ relay'[1].endpoint = "/api/chat"
              /\ relay'[1].payload.messages = Get(call.body, K_messages).a ]_vars

\* a question was submitted in a conversation of 13 turns: the relay has
\* sent upstream turns 3 to 14 of the 15 the client now keeps
OldestTurnsDropped ==
    /\ call.pc = "wait"
    /\ Len(messages) = 15
    /\ messages[14] = Turn("user", Str("q1"))
    /\ relay[1].payload.messages = SubSeq(messages, 3, 14)

\* the upstream call of the request was issued
Called(h) == h.pc # "idle" /\ h.err # "convert"

\* C10: a request whose messages is a non-empty array goes to the chat
\* endpoint with {model, messages, stream, options}, the messages as they
\* came; any other request goes to the generate endpoint with {model,
\* prompt, stream, options}, the prompt empty when none came; the model is
\* the configured one when none came.  This holds as long as the request
\* is handled.
TwoWayNormalization ==
    \A q \in Req :
        Called(relay[q]) =>
            /\ IF Get(relay[q].body, K_messages).t = "array"
                    /\ Get(relay[q].body, K_messages).a # <<>>
               THEN /\ relay[q].endpoint = "/api/chat"
                    /\ DOMAIN relay[q].payload = {"model", "messages", "stream", "options"}
                    /\ relay[q].payload.messages = Get(relay[q].body, K_messages).a
               ELSE /\ relay[q].endpoint = "/api/generate"
                    /\ DOMAIN relay[q].payload = {"model", "prompt", "stream", "options"}
                    /\ Get(relay[q].body, K_prompt) = Undefined =>
                           relay[q].payload.prompt = <<>>
                    /\ Get(relay[q].body, K_prompt).t = "string" =>
                           relay[q].payload.prompt = Get(relay[q].body, K_prompt).s
            /\ Get(relay[q].body, K_model) = Undefined =>
                   relay[q].payload.model = CHAT_MODEL
            /\ IsText(Get(relay[q].body, K_model)) =>
                   relay[q].payload.model = Get(relay[q].body, K_model).s

\* a request with an empty messages array and a prompt was answered from
\* the generate endpoint, asked with that prompt and the configured model
EmptyMessagesGenerate ==
    \E q \in Req :
        /\ relay[q].pc = "closed"
        /\ relay[q].body
               = JObj(<<K_messages, K_prompt>>, <<JArr(<<>>), JStr(Str("why"))>>)
        /\ relay[q].endpoint = "/api/generate"
        /\ relay[q].payload.prompt = Str("why")
        /\ relay[q].payload.model = CHAT_MODEL

\* C11: a submit sets busy, and busy is cleared again whichever way the
\* request ends: the stream completes, a JSON document is answered, the
\* response has no body, fetch fails, or reading the stream fails.
BusyCleared == busy ~> ~busy

\* a request whose stream broke after a fragment has ended with the notice
\* and busy cleared
IdleAfterBrokenStream ==
    /\ ~busy
    /\ call.pc = "none"
    /\ relay[1].pc = "rejected"
    /\ Last(messages) = Turn("assistant", Notice)

\* the relay is not reached, has answered 502 or 500, or has abandoned the
\* response it was streaming
RelayFailure ==
    \/ call.pc = "fetch"
    \/ /\ call.pc \in {"wait", "json", "read"}
       /\ \/ relay[1].res.sentStatus \in {500, 502}
          \/ relay[1].pc = "rejected"

\* the request's placeholder is still the last turn, after its user turn
PlaceholderLast ==
    /\ Len(messages) > 1
    /\ Last(messages).role = "assistant"
    /\ messages[Len(messages) - 1].role = "user"

\* C12 as claimed: when a request ends on a relay failure, the placeholder is
\* replaced by the notice and every other turn is as it was.
FailureShowsNotice ==
    [][ (busy /\ ~busy' /\ RelayFailure /\ PlaceholderLast) =>
            /\ Last(messages') = Turn("assistant", Notice)
            /\ Front(messages') = Front(messages) ]_vars

\* C13: warmUp() is started once, when the server begins to listen; none of
\* its steps touches a request; and a request the relay has accepted is
\* handled to the end of its handler whether the warm-up is still in flight,
\* has warmed the model or has failed.
WarmUpDecoupled ==
    /\ [][warm' = "fetch" => warm \in {"none", "fetch"}]_vars
    /\ [][warm' # warm => relay' = relay]_vars
    /\ \A w \in {"fetch", "text", "warmed", "failed"} :
          (relay[1].pc = "fetch" /\ warm = w)
              ~> (relay[1].pc \in {"closed", "rejected"})

ServedAfterWarmUpFailed ==
    /\ warm = "failed"
    /\ Finished(relay[1])
    /\ relay[1].res.written # <<>>

\* C14: the residue left in the buffer at the end of the stream is handled
\* as a line is: a stream answered to its end has written, and has set the
\* output-produced flag to, what the same stream followed by a newline
\* writes and sets.
ResidueHandledAsLine ==
    \A q \in Req :
        Finished(relay[q]) =>
            /\ relay[q].res.written = SingleRead(relay[q].r.bytes \o <<10>>)
            /\ relay[q].wroteSomething
                   = ReadChunk(TextDecoder, <<>>, FALSE,
                               relay[q].r.bytes \o <<10>>).wrote

\* `obj.error` of a line, undefined when the line is not a JSON object
ErrorOf(line) ==
    IF JSONParse(line).ok THEN Get(JSONParse(line).val, K_error) ELSE Undefined

\* line k has an error field and no output was produced before it or by it
ErrorDue(lines, k) ==
    /\ ErrorOf(lines[k]) # Undefined
    /\ ~Before(lines, k).wrote
    /\ ~HandleLine(lines[k], TRUE).wrote \/ HandleLine(lines[k], TRUE).out = <<>>

\* C15: the error text of a line is written exactly when the line has an
\* error field and no output was produced before: a stream answered to its
\* end whose line k has an error field, with nothing written by the lines
\* before it or by its own fragments, starts with that error text; and no
\* error text is written in any other case.
ErrorWrittenWhenFirst ==
    \A q \in Req :
        Finished(relay[q]) =>
            \A k \in 1..Len(LinesOf(relay[q].r.bytes)) :
                LET lines == LinesOf(relay[q].r.bytes)
                IN  IF ErrorDue(lines, k)
                    THEN /\ relay[q].res.written # <<>>
                         /\ relay[q].res.written[1] = String(ErrorOf(lines[k]))
                    ELSE ErrorOf(lines[k]) # Undefined =>
                            \A i \in 2..Len(relay[q].res.written) :
                                relay[q].res.written[i] # String(ErrorOf(lines[k]))

\* obj.response and obj?.message?.content of a line that parses
ResponseOf(line) == Get(JSONParse(line).val, K_response)
ChatChunkOf(line) == Get(Get(JSONParse(line).val, K_message), K_content)

\* a JSON object with no response, no message.content and no error
Neither(line) ==
    /\ JSONParse(line).ok
    /\ JSONParse(line).val.t = "object"
    /\ ResponseOf(line) = Undefined
    /\ ChatChunkOf(line) = Undefined
    /\ ErrorOf(line) = Undefined

\* C16: the two checks are independent: of a stream answered to its end, a
\* line with a non-empty response text and a non-empty message.content text
\* has both written, the response first and the content right after it, and
\* the lines that carry neither (nor an error) add nothing after them.
BothFieldsWritten ==
    \A q \in Req :
        Finished(relay[q]) =>
            \A k \in 1..Len(LinesOf(relay[q].r.bytes)) :
                LET lines == LinesOf(relay[q].r.bytes)
                    at == Len(Before(lines, k).out)
                IN  (/\ JSONParse(lines[k]).ok
                     /\ IsText(ResponseOf(lines[k]))
                     /\ IsText(ChatChunkOf(lines[k]))) =>
                        /\ Len(relay[q].res.written) >= at + 2
                        /\ relay[q].res.written[at + 1] = ResponseOf(lines[k]).s
                        /\ relay[q].res.written[at + 2] = ChatChunkOf(lines[k]).s
                        /\ (\A j \in (k + 1)..Len(lines) :
                                trim(lines[j]) = <<>> \/ Neither(lines[j]))
                              => Len(relay[q].res.written) = at + 2

BothThenNeither ==
    /\ Finished(relay[2])
    /\ relay[2].res.written = <<Str("He"), Str("llo")>>
    /\ Neither(LinesOf(relay[2].r.bytes)[2])

\* the text decoded from the bytes read so far
TextSoFar(h) == decode(TextDecoder, SubSeq(h.r.bytes, 1, h.pos)).out

\* C17: after every iteration of the read loop the buffer holds no newline
\* and is the decoded text received after the last newline; the complete
\* lines before it have been handled once each, in order, whatever reads
\* they arrived in.
BufferInvariant ==
    \A q \in Req :
        relay[q].pc = "read" =>
            /\ \A i \in 1..Len(relay[q].buffer) : relay[q].buffer[i] # 10
            /\ relay[q].buffer = Last(split(TextSoFar(relay[q])))
            /\ relay[q].res.written
                  = Before(split(TextSoFar(relay[q])),
                           Len(split(TextSoFar(relay[q])))).out

\* an incomplete line is held back after an earlier line was handled, and
\* the next byte to arrive continues it
IncompleteLineRetained ==
    /\ relay[1].pc = "read"
    /\ Len(relay[1].buffer) >= 2
    /\ relay[1].res.written # <<>>
    /\ relay[1].pos < Len(relay[1].r.bytes)
    /\ relay[1].r.bytes[relay[1].pos + 1] # 10

\* the keys of `options` in the request body
Supplied(reqBody) == DOMAIN Members(Get(reqBody, K_options))

\* C18: the options sent upstream are the defaults overridden key by key by
\* the caller's options: every caller key carries the caller's value, every
\* default key the caller left out carries its default, and there is no
\* other key.
OptionsShallowMerge ==
    \A q \in Req :
        Called(relay[q]) =>
            /\ DOMAIN relay[q].payload.options
                  = Supplied(relay[q].body) \cup {K_num_ctx, K_num_predict, K_keep_alive}
            /\ \A key \in Supplied(relay[q].body) :
                  relay[q].payload.options[key]
                      = Members(Get(relay[q].body, K_options))[key]
            /\ K_num_ctx \notin Supplied(relay[q].body)
                  => relay[q].payload.options[K_num_ctx] = JNum(2048)
            /\ K_num_predict \notin Supplied(relay[q].body)
                  => relay[q].payload.options[K_num_predict] = JNum(256)
            /\ K_keep_alive \notin Supplied(relay[q].body)
                  => relay[q].payload.options[K_keep_alive] = JStr(Str("4h"))

\* a caller that overrides num_predict and adds seed
CallerOverridesOneDefault ==
    /\ relay[2].pc = "fetch"
    /\ Supplied(relay[2].body) = {K_num_predict, Str("seed")}
    /\ relay[2].payload.options[K_num_predict] = JNum(8)
    /\ relay[2].payload.options[K_num_ctx] = JNum(2048)

\* the chunks a request has written are those it writes when it runs alone
AsAlone(h) ==
    /\ h.pc = "read" =>
          h.res.written
              = ReadChunk(TextDecoder, <<>>, FALSE, SubSeq(h.r.bytes, 1, h.pos)).out
    /\ Finished(h) => h.res.written = SingleRead(h.r.bytes)

\* C19: requests in progress at once are isolated: each writes what it
\* writes alone, however the reads of the two interleave; a request in
\* progress issues no second upstream call; a step of one request changes
\* nothing of the other; and a request completes even if the upstream of
\* the other stalls for ever.
ConcurrentIsolation ==
    /\ [](\A q \in Req : AsAlone(relay[q]))
    /\ [][\A q \in Req :
            (relay'[q] # relay[q] /\ relay'[q].pc = "fetch")
                => relay[q].pc \in {"idle", "closed", "rejected"}]_vars
    /\ [][\A q \in Req :
            relay'[q] # relay[q] => relay'[3 - q] = relay[3 - q]]_vars
    /\ (relay[2].pc = "fetch") ~> (relay[2].pc \in {"closed", "rejected"})

\* the second request is answered to the end while the first, of another
\* stream, waits in the middle of a line for its next read
FinishedBesideStalled ==
    /\ Finished(relay[2])
    /\ relay[1].pc = "read"
    /\ relay[1].buffer # <<>>
    /\ relay[1].res.written # <<>>
    /\ relay[1].pos < Len(relay[1].r.bytes)
    /\ relay[1].r.bytes # relay[2].r.bytes

\* the chat was cleared while a request is in flight: the only turn is the
\* "Chat cleared" turn, and the placeholder of the request is gone
ClearedInFlight == busy /\ messages = <<Turn("assistant", Cleared)>>

\* C20: the fragments and the failure notice of a request modify only the
\* placeholder turn its submit created: once the chat is cleared while the
\* request is in flight, no step of that request changes the conversation.
OnlyPlaceholderModified ==
    [][ClearedInFlight => messages' = messages]_vars

=============================================================================
